---- MODULE Spec2Model ----
(***************************************************************************)
(* Export orchestration pipeline of the export server: the request handler *)
(* of routes/export.ts and the two renderVideo implementations of the      *)
(* repository (the staged one, which downloads assets into the job's       *)
(* working directory, and the one of renderer/captureFrames.ts, which maps *)
(* storage URLs to files of the main project).                             *)
(*                                                                         *)
(* Times are in milliseconds.  A source reference is a pair <<kind, name>> *)
(* with kind "none" (no src), "remote" (an http URL), "asset" (a file of   *)
(* the job's assets directory) or "local" (a file of the main project).    *)
(***************************************************************************)
EXTENDS Integers, Sequences, FiniteSets, TLC

\* ---------------------------------------------------------------- bounds

\* The rendering surface misbehaves (invalid image, thrown evaluation) only
\* for frame indices below this bound.
MaxBadFrame == 1

\* The largest step by which time advances while a seek is awaited, in ms.
TickMs == 1000

\* The largest size, in bytes, of a staged file the surface requests, and
\* the largest offset a Range header names.
MaxFileSize == 3

\* ------------------------------------------------------ program constants

fps == 24
MinDuration == 5000
SampledFrames == 5
ProgressEvery == 5
MergingProgress == 90
UploadingProgress == 95
TerminalProgress == 100
LowAccuracy == 50
FallbackAccuracy == 20
SeekTolerance == 50
SeekTimeout == 2000
AccuracyTolerance == 500

\* ------------------------------------------------------------ data model

NoSrc == <<"none", "">>

Elem(t, ct, s) == [type |-> t, customType |-> ct, src |-> s, originalSrc |-> NoSrc]

Video(s) == Elem("video", "", s)
Image(s) == Elem("image", "", s)
TextEl == Elem("text", "", NoSrc)

UrlA == <<"remote", "a.mp4">>
UrlB == <<"remote", "b.png">>

\* The scene descriptions a job is submitted with (design.objects).
Scenes ==
  { <<>>,
    <<Video(UrlA)>>,
    <<Elem("image", "video", UrlA)>>,
    <<Video(UrlA), TextEl>>,
    <<Image(UrlB), Image(UrlB)>> }

\* Values the duration prober (ffprobe) reports; 0 stands for a failed probe.
ProbeValues == {0, 3000, 8000}

\* obj.customType || obj.type
ElemType(o) == IF o.customType # "" THEN o.customType ELSE o.type

IsRemote(s) == s[1] = "remote"

\* downloadAsset's file name: join(assetsDir, md5(url) + ext) -- one file
\* of the assets directory per URL.
AssetPath(url) == <<"asset", url[2]>>

\* getLocalPath's candidate file in the main project's storage.
StoragePath(url) == <<"local", url[2]>>

\* Math.round(x) for x = (i / totalFrames) * 100 >= 0: floor(x + 1/2).
RoundPercent(k, n) == (200 * k + n) \div (2 * n)

\* The video elements of the rendering surface, one per video object of the
\* scene (document.querySelectorAll('video')).
Videos(objs) == {k \in 1..Len(objs) : ElemType(objs[k]) = "video"}

\* Exit codes of the encoder process and statuses of the upload endpoint.
ExitCodes == {0, 1}
UploadStatuses == {200, 500}

\* ----------------------------------------------------------------- state

VARIABLES
  impl,            \* "staged" | "legacy": which renderVideo is deployed
  useFFmpeg,       \* req.query.ffmpeg === 'true'
  webhookUrl,      \* TRUE iff req.body.webhook_url is set
  design,          \* req.body.design.objects
  hpc,             \* position of the request handler
  responses,       \* number of responses written to res
  logged,          \* what the handler logged after the renderer settled
  pc,              \* position of renderVideo
  err,             \* the error pending in renderVideo ("none" if none)
  outcome,         \* "none" | "returned" | "threw"
  browser,         \* "none" | "open" | "closed"
  workDir,         \* <tmp>/<exportId> exists
  assets,          \* URLs whose file exists in <tmp>/<exportId>/assets
  frames,          \* indices k with frame_k.png in the frames directory
  ffFrames,        \* indices written by the fallback extractor
  audioFile,       \* audio.aac exists
  mergedOut,       \* the encoder wrote its output file
  localDesign,     \* prepareDesignAssets' / processDesignPaths' copy
  sIdx,            \* next object of the copy to stage
  fetches,         \* per URL, the number of fetch(url) calls made
  stageLog,        \* every downloadAsset call: object, url, cache hit, fetch
                   \* outcome and the value returned
  audioPath,       \* "null" | "audio"
  audioFrom,       \* index of the object whose source extractAudio handed
                   \* to the encoder (0: the encoder was not run)
  audioDuration,
  maxVideoDuration,
  duration,
  totalFrames,
  i,
  successfulSeeks,
  failedSeeks,
  events,          \* progress events initiated, in order
  fallbackCalls,   \* calls of extractVideoFramesWithFFmpeg
  uploads,         \* upload requests made
  uploadStatus,    \* HTTP status the upload endpoint answered (0: none yet)
  encodeExit,      \* exit code of the encoder run last (-1: not run)
  postFailed,      \* some progress post was rejected
  mergeAudio,      \* "unset" | "none" | "audio": the audio input of the
                   \* encoder command mergeVideo ran last
  currentTime,     \* per video element of the surface, its playback position
  seekMode,        \* per video element, how its seek promise stands
  seekTimer,       \* per video element, ms left on the seek timeout (-1: none)
  waited,          \* ms spent in the current __SEEK_VIDEO__ call
  seekedSeen,      \* some element has fired 'seeked'
  begun,           \* pipeline stages that have begun
  ended,           \* pipeline stages that have finished
  designReady,     \* window.designReady was observed true by the ready wait
  jobAt,           \* per concurrent job, the call of the pipeline it is at
  jobPhase,        \* per concurrent job, "ready" to make that call or
                   \* "waiting" for it to come back
  thread,          \* "free", or the job whose execSync holds the thread
  request,         \* the request of the rendering surface being intercepted
  endpoint         \* "up" | "silent": whether the progress webhook answers

inputVars == <<impl, useFFmpeg, webhookUrl, endpoint, design>>
handlerVars == <<hpc, responses, logged>>
fsVars == <<workDir, assets, frames, ffFrames, audioFile, mergedOut>>
stagingVars == <<localDesign, sIdx, fetches, stageLog>>
durVars == <<audioPath, audioFrom, audioDuration, maxVideoDuration, duration>>
loopVars == <<totalFrames, i, successfulSeeks, failedSeeks>>
histVars == <<events, fallbackCalls, uploads, uploadStatus, encodeExit,
              postFailed, mergeAudio>>
seekVars == <<currentTime, seekMode, seekTimer, waited, seekedSeen>>
stageVars == <<begun, ended>>
nodeVars == <<jobAt, jobPhase, thread>>

vars == <<impl, useFFmpeg, webhookUrl, design, hpc, responses, logged, pc, err,
          outcome, browser, workDir, assets, frames, ffFrames, audioFile,
          mergedOut, localDesign, sIdx, fetches, stageLog, audioPath, audioFrom,
          audioDuration, maxVideoDuration, duration, totalFrames, i,
          successfulSeeks, failedSeeks, events, fallbackCalls, uploads,
          begun, ended, uploadStatus, encodeExit, postFailed, mergeAudio,
          currentTime,
          seekMode, seekTimer, waited, seekedSeen, designReady, jobAt,
          jobPhase, thread, request, endpoint>>

Urls == {UrlA, UrlB}

\* The requests in flight at once: every POST /export starts a job of its
\* own on the one thread of the process.
Jobs == {"A", "B"}

\* No response: what a request has before request.respond() is called.
NoResponse ==
  [status |-> 0, acceptRanges |-> FALSE, contentRange |-> <<>>,
   contentLength |-> 0, body |-> <<>>]

\* No request of the rendering surface is being handled.
NoRequest ==
  [url |-> "remote", asset |-> "image", exists |-> FALSE, size |-> 1,
   range |-> <<>>, phase |-> "none", responded |-> 0, continued |-> 0,
   response |-> NoResponse]

\* The state in which a request for one of the given scenes arrives, the
\* progress webhook behaving in one of the given ways.
InitWith(scenes, endpoints) ==
  /\ impl \in {"staged", "legacy"}
  /\ useFFmpeg \in BOOLEAN
  /\ useFFmpeg => impl = "staged"
  /\ webhookUrl \in BOOLEAN
  /\ design \in scenes
  /\ hpc = "recv"
  /\ responses = 0
  /\ logged = "none"
  /\ pc = "idle"
  /\ err = "none"
  /\ outcome = "none"
  /\ browser = "none"
  /\ workDir = FALSE
  /\ assets = {}
  /\ frames = {}
  /\ ffFrames = {}
  /\ audioFile = FALSE
  /\ mergedOut = FALSE
  /\ localDesign = <<>>
  /\ sIdx = 1
  /\ fetches = [u \in Urls |-> 0]
  /\ stageLog = <<>>
  /\ audioPath = "null"
  /\ audioFrom = 0
  /\ audioDuration = 0
  /\ maxVideoDuration = 0
  /\ duration = 0
  /\ totalFrames = 0
  /\ i = 0
  /\ successfulSeeks = 0
  /\ failedSeeks = 0
  /\ events = <<>>
  /\ fallbackCalls = 0
  /\ uploads = 0
  /\ begun = {}
  /\ ended = {}
  /\ uploadStatus = 0
  /\ encodeExit = -1
  /\ postFailed = FALSE
  /\ mergeAudio = "unset"
  /\ designReady = FALSE
  /\ jobAt = [j \in Jobs |-> 1]
  /\ jobPhase = [j \in Jobs |-> "ready"]
  /\ thread = "free"
  /\ request = NoRequest
  /\ endpoint \in endpoints
  /\ currentTime = [v \in Videos(design) |-> 0]
  /\ seekMode = [v \in Videos(design) |-> "idle"]
  /\ seekTimer = [v \in Videos(design) |-> -1]
  /\ waited = 0
  /\ seekedSeen = FALSE

\* The state in which a request for one of the given scenes arrives, the
\* progress webhook answering its posts.
InitFor(scenes) == InitWith(scenes, {"up"})

Init == InitFor(Scenes)

\* ------------------------------------------------------- request handler

\* res.json({status: 'started', ...}), then the renderer is called.
HandlerRespond ==
  /\ hpc = "recv"
  /\ responses' = responses + 1
  /\ hpc' = "await"
  /\ pc' = IF useFFmpeg THEN "ffmpegRenderer" ELSE "start"
  /\ UNCHANGED <<inputVars, seekVars, nodeVars, request, designReady, logged, err, outcome, browser, fsVars,
                 stagingVars, durVars, loopVars, histVars, stageVars>>

\* What the handler does once the awaited renderer has settled: the try
\* block logs success, the catch block logs the failure.
HandlerLog(o) == IF o = "returned" THEN "completed" ELSE "failed"

\* A catch block that answers the request again when the renderer failed.
HandlerSettleRespondsOnError ==
  /\ hpc = "await"
  /\ pc = "done"
  /\ logged' = HandlerLog(outcome)
  /\ responses' = IF outcome = "returned" THEN responses ELSE responses + 1
  /\ hpc' = "done"
  /\ UNCHANGED <<inputVars, seekVars, nodeVars, request, designReady, pc, err, outcome, browser, fsVars,
                 stagingVars, durVars, loopVars, histVars, stageVars>>

HandlerSettle ==
  /\ hpc = "await"
  /\ pc = "done"
  /\ logged' = HandlerLog(outcome)
  /\ hpc' = "done"
  /\ UNCHANGED <<inputVars, seekVars, nodeVars, request, designReady, responses, pc, err, outcome, browser,
                 fsVars, stagingVars, durVars, loopVars, histVars, stageVars>>

\* The encoder treating exit code 1 as success.
EncoderOkLenient(code) == code \in {0, 1}

\* Whether an encoder run counts as a success: executeFFmpeg resolves iff
\* the process closes with code 0, and execSync returns iff it exits with 0.
EncoderOk(code) == code = 0

\* renderVideoWithFFmpeg: rejects without a video element that has a source,
\* and otherwise settles as the encoder process exits.
RenderWithFFmpeg ==
  /\ pc = "ffmpegRenderer"
  /\ IF \E k \in 1..Len(design) :
          ElemType(design[k]) = "video" /\ design[k].src # NoSrc
     THEN \E code \in ExitCodes :
            /\ encodeExit' = code
            /\ outcome' = IF EncoderOk(code) THEN "returned" ELSE "threw"
     ELSE /\ outcome' = "threw"
          /\ UNCHANGED encodeExit
  /\ pc' = "done"
  /\ UNCHANGED <<inputVars, seekVars, nodeVars, request, designReady, handlerVars, err, browser, fsVars,
                 stagingVars, durVars, loopVars, events, fallbackCalls, uploads,
                 uploadStatus, postFailed, mergeAudio, stageVars>>

\* ------------------------------------------------ renderVideo: entry

\* An error thrown inside renderVideo's try block: the catch block logs and
\* rethrows it, so control goes to the finally block with the error pending.
ThrowInTry(e) ==
  /\ pc' = "finally"
  /\ err' = e

\* mkdir(framesDir, {recursive: true}): the working directory exists.
MakeWorkDir ==
  /\ pc = "start"
  /\ workDir' = TRUE
  /\ pc' = IF impl = "staged" THEN "launch" ELSE "stage"
  /\ UNCHANGED <<inputVars, seekVars, nodeVars, request, designReady, handlerVars, err, outcome, browser,
                 assets, frames, ffFrames, audioFile, mergedOut, stagingVars,
                 durVars, loopVars, histVars, stageVars>>

\* Where a rejected puppeteer.launch() leaves renderVideo: the call stands
\* before the try statement, so neither catch nor finally runs.
LaunchRejected == "done"

\* puppeteer.launch().
LaunchBrowser ==
  /\ pc = "launch"
  /\ \/ /\ browser' = "open"
        /\ pc' = IF impl = "staged" THEN "prepare" ELSE "newPage"
        /\ UNCHANGED <<err, outcome>>
     \/ /\ pc' = LaunchRejected
        /\ err' = "launch"
        /\ outcome' = IF LaunchRejected = "done" THEN "threw" ELSE outcome
        /\ UNCHANGED browser
  /\ UNCHANGED <<inputVars, seekVars, nodeVars, request, designReady, handlerVars, fsVars, stagingVars, durVars,
                 loopVars, histVars, stageVars>>

\* --------------------------------------------- asset staging (staged)

\* prepareDesignAssets: the deep copy and the assets directory.
PrepareBegin ==
  /\ pc = "prepare"
  /\ localDesign' = design
  /\ sIdx' = 1
  /\ begun' = begun \cup {"staging"}
  /\ pc' = "stageObj"
  /\ UNCHANGED <<inputVars, seekVars, nodeVars, request, designReady, handlerVars, err, outcome, browser,
                 fsVars, fetches, stageLog, durVars, loopVars, histVars, ended>>

\* downloadAsset returning the local path although the download failed.
DownloadResultAlwaysLocal(url, ok) ==
  IF ~IsRemote(url) THEN url ELSE AssetPath(url)

\* downloadAsset(url, assetsDir) with the fetch answering ok or not: the
\* value returned, the files of the assets directory and the fetch counts.
DownloadResult(url, ok) ==
  IF ~IsRemote(url) THEN url
  ELSE IF url \in assets THEN AssetPath(url)
  ELSE IF ok THEN AssetPath(url)
  ELSE url

\* downloadAsset without the existsSync(localPath) shortcut.
DownloadFetchesNoCache(url) ==
  IF IsRemote(url) THEN [fetches EXCEPT ![url] = @ + 1] ELSE fetches

DownloadFetches(url) ==
  IF IsRemote(url) /\ url \notin assets
  THEN [fetches EXCEPT ![url] = @ + 1] ELSE fetches

DownloadAssets(url, ok) ==
  IF IsRemote(url) /\ url \notin assets /\ ok THEN assets \cup {url} ELSE assets

\* processObjects' body for one object: if (localPath && localPath !==
\* obj.src) { obj.src = localPath; obj.originalSrc = obj.src }.
Relocate(obj, localPath) ==
  IF localPath # NoSrc /\ localPath # obj.src
  THEN [obj EXCEPT !.src = localPath, !.originalSrc = localPath]
  ELSE obj

\* processObjects working on the caller's object: prepareDesignAssets
\* without its deep copy.
StageObjectInPlace ==
  /\ pc = "stageObj"
  /\ sIdx <= Len(localDesign)
  /\ LET obj == localDesign[sIdx] IN
       IF obj.src = NoSrc
       THEN UNCHANGED <<localDesign, fetches, stageLog, assets>>
       ELSE \E ok \in BOOLEAN :
              /\ ok \/ (IsRemote(obj.src) /\ obj.src \notin assets)
              /\ localDesign' = [localDesign EXCEPT
                                   ![sIdx] = Relocate(obj, DownloadResult(obj.src, ok))]
              /\ fetches' = DownloadFetches(obj.src)
              /\ assets' = DownloadAssets(obj.src, ok)
              /\ stageLog' = Append(stageLog,
                                     [obj |-> sIdx, url |-> obj.src,
                                      hit |-> obj.src \in assets, ok |-> ok,
                                      result |-> DownloadResult(obj.src, ok)])
  /\ sIdx' = sIdx + 1
  /\ design' = localDesign'
  /\ UNCHANGED <<impl, useFFmpeg, webhookUrl, endpoint, seekVars, nodeVars, request, designReady, handlerVars, pc, err,
                 outcome, browser, workDir, frames, ffFrames, audioFile,
                 mergedOut, durVars, loopVars, histVars, stageVars>>

\* processObjects for the next object of the copy (processed is
\* JSON.parse(JSON.stringify(design)); the caller's design is not written).
StageObject ==
  /\ pc = "stageObj"
  /\ sIdx <= Len(localDesign)
  /\ LET obj == localDesign[sIdx] IN
       IF obj.src = NoSrc
       THEN UNCHANGED <<localDesign, fetches, stageLog, assets>>
       ELSE \E ok \in BOOLEAN :
              /\ ok \/ (IsRemote(obj.src) /\ obj.src \notin assets)
              /\ localDesign' = [localDesign EXCEPT
                                   ![sIdx] = Relocate(obj, DownloadResult(obj.src, ok))]
              /\ fetches' = DownloadFetches(obj.src)
              /\ assets' = DownloadAssets(obj.src, ok)
              /\ stageLog' = Append(stageLog,
                                     [obj |-> sIdx, url |-> obj.src,
                                      hit |-> obj.src \in assets, ok |-> ok,
                                      result |-> DownloadResult(obj.src, ok)])
  /\ sIdx' = sIdx + 1
  /\ UNCHANGED <<inputVars, seekVars, nodeVars, request, designReady, handlerVars, pc, err, outcome, browser,
                 workDir, frames, ffFrames, audioFile, mergedOut, durVars,
                 loopVars, histVars, stageVars>>

\* prepareDesignAssets returns; convertToBrowserPaths is a pure copy.
PrepareEnd ==
  /\ pc = "stageObj"
  /\ sIdx > Len(localDesign)
  /\ ended' = ended \cup {"staging"}
  /\ pc' = "audio"
  /\ UNCHANGED <<inputVars, seekVars, nodeVars, request, designReady, handlerVars, err, outcome, browser,
                 fsVars, stagingVars, durVars, loopVars, histVars, begun>>

\* --------------------------------------------- path mapping (legacy)

RECURSIVE MapPaths(_, _)
MapPaths(objs, avail) ==
  IF objs = <<>> THEN <<>>
  ELSE LET o == Head(objs)
           p == IF o.src # NoSrc /\ o.src \in avail THEN StoragePath(o.src) ELSE o.src
       IN <<Relocate(o, p)>> \o MapPaths(Tail(objs), avail)

SrcsOf(objs) == {objs[k].src : k \in 1..Len(objs)} \ {NoSrc}

\* processDesignPaths: every source getLocalPath finds in the main
\* project's storage is replaced by that file's path.
ProcessDesignPaths ==
  /\ pc = "stage"
  /\ \E avail \in {{}, SrcsOf(design)} :
       localDesign' = MapPaths(design, avail)
  /\ begun' = begun \cup {"staging"}
  /\ ended' = ended \cup {"staging"}
  /\ pc' = "audio"
  /\ UNCHANGED <<inputVars, seekVars, nodeVars, request, designReady, handlerVars, err, outcome, browser,
                 fsVars, sIdx, fetches, stageLog, durVars, loopVars, histVars>>

\* ------------------------------------------------- duration resolution

\* existsSync(src) for a source reference of the staged copy.
FileExists(src) ==
  \/ src[1] = "local"
  \/ src[1] = "asset" /\ <<"remote", src[2]>> \in assets

RECURSIVE FirstVideo(_)
\* objects.find(o => (o.customType || o.type) === 'video'): its index, or 0.
FirstVideo(objs) ==
  IF objs = <<>> THEN 0
  ELSE IF ElemType(Head(objs)) = "video" THEN 1
  ELSE LET r == FirstVideo(Tail(objs)) IN IF r = 0 THEN 0 ELSE r + 1

\* extractAudio: whether the encoder is run at all (a video element with a
\* source was found).
AudioCandidate(objs) ==
  /\ FirstVideo(objs) # 0
  /\ objs[FirstVideo(objs)].src # NoSrc

\* extractAudio(localDesign, baseDir): null unless the encoder extracts the
\* first video element's audio track.
ExtractAudio ==
  /\ pc = "audio"
  /\ begun' = begun \cup {"resolve"}
  /\ IF AudioCandidate(localDesign)
     THEN /\ audioFrom' = FirstVideo(localDesign)
          /\ \/ /\ audioPath' = "audio"
                /\ audioFile' = TRUE
             \/ /\ audioPath' = "null"
                /\ UNCHANGED audioFile
     ELSE /\ audioPath' = "null"
          /\ UNCHANGED <<audioFrom, audioFile>>
  /\ pc' = "probe"
  /\ UNCHANGED <<inputVars, seekVars, nodeVars, request, designReady, handlerVars, err, outcome, browser,
                 workDir, assets, frames, ffFrames, mergedOut, stagingVars,
                 audioDuration, maxVideoDuration, duration, loopVars, histVars,
                 ended>>

RECURSIVE MaxVideoFrom(_, _, _)
\* checkObjectsDuration: the running maximum over the video elements whose
\* file exists, probe[k] being what the prober reports for object k.
MaxVideoFrom(objs, probe, k) ==
  IF k > Len(objs) THEN 0
  ELSE LET rest == MaxVideoFrom(objs, probe, k + 1)
           o == objs[k]
           d == IF ElemType(o) = "video" /\ o.src # NoSrc /\ FileExists(o.src)
                THEN probe[k] ELSE 0
       IN IF d > rest THEN d ELSE rest

\* Math.max(maxVideoDuration, audioDuration) without the minimum.
MathMax3NoFloor(v, a, m) == IF v >= a THEN v ELSE a

\* Math.max(maxVideoDuration, audioDuration, 5)
MathMax3(v, a, m) ==
  IF v >= a /\ v >= m THEN v ELSE IF a >= m THEN a ELSE m

ResolveDuration ==
  /\ pc = "probe"
  /\ \E a \in ProbeValues, probe \in [1..Len(localDesign) -> ProbeValues] :
       /\ audioPath = "null" => a = 0
       /\ \A k \in 1..Len(localDesign) :
            ~(ElemType(localDesign[k]) = "video" /\ localDesign[k].src # NoSrc
              /\ FileExists(localDesign[k].src)) => probe[k] = 0
       /\ audioDuration' = a
       /\ maxVideoDuration' = MaxVideoFrom(localDesign, probe, 1)
       /\ duration' = MathMax3(MaxVideoFrom(localDesign, probe, 1), a, MinDuration)
  /\ ended' = ended \cup {"resolve"}
  /\ pc' = IF impl = "staged" THEN "newPage" ELSE "launch"
  /\ UNCHANGED <<inputVars, seekVars, nodeVars, request, designReady, handlerVars, err, outcome, browser,
                 fsVars, stagingVars, audioPath, audioFrom, loopVars, histVars,
                 begun>>

\* ------------------------------------------------- rendering surface

\* Math.floor(duration * fps)
TotalFrames(d) == (d * fps) \div 1000

\* reportProgress(progress, status): a post is made iff a webhook is set.
Report(p, s) ==
  IF webhookUrl THEN Append(events, [progress |-> p, status |-> s]) ELSE events

\* reportProgress awaited although its post was rejected: the catch block
\* missing, it resolves only for a delivered post.
ReportResolvesIfDelivered(delivered) == delivered

\* reportProgress as its caller sees it: the catch block logs a rejected
\* post, so the call resolves whether or not the post was delivered.
ReportResolves(delivered) == TRUE

\* await fetch(webhookUrl, {method, headers, body}): the call carries no
\* timeout and no abort signal, so the promise settles only when the
\* endpoint answers or the connection fails.
PostSettles(ep) == ep = "up"

\* The history of rejected posts, after a step that made the posts of
\* events' beyond events.
PostFailedAfter(delivered) == postFailed \/ (events' # events /\ ~delivered)

\* await reportProgress(p, s) inside the try block, control going on to
\* next.
AwaitReport(p, s, delivered, next) ==
  /\ webhookUrl => PostSettles(endpoint)
  /\ events' = Report(p, s)
  /\ postFailed' = PostFailedAfter(delivered)
  /\ IF webhookUrl /\ ~ReportResolves(delivered)
     THEN ThrowInTry("webhook")
     ELSE pc' = next /\ UNCHANGED err

\* Where the job goes after page.waitForFunction(designReady === true):
\* on to the capture loop when the flag was seen, into the catch block when
\* the wait timed out.
AfterReadyWaitLenient(ready) == "seek"

AfterReadyWait(ready) == IF ready THEN "seek" ELSE "throw"

\* Whether browser.newPage() and page.setRequestInterception(true) stand
\* inside the try statement: in part_001 they do, in captureFrames.ts they
\* come before it, so that their rejection runs neither catch nor finally.
PageInsideTry == impl = "staged"

\* newPage, setRequestInterception, goto, the wait for loadDesign,
\* loadDesign(browserDesign) and the wait for designReady: the flag is
\* observed true, or the wait (or a call before it) throws.
LoadSurface ==
  /\ pc = "newPage"
  /\ begun' = begun \cup {"render"}
  /\ \/ /\ UNCHANGED outcome
        /\ \E ready \in BOOLEAN :
             /\ designReady' = ready
             /\ \/ /\ AfterReadyWait(ready) = "seek"
                   /\ pc' = "seek"
                   /\ totalFrames' = TotalFrames(duration)
                   /\ i' = 0
                   /\ UNCHANGED <<err, ended>>
                \/ /\ AfterReadyWait(ready) = "throw"
                   /\ ThrowInTry("surface")
                   /\ ended' = ended \cup {"render"}
                   /\ UNCHANGED <<totalFrames, i>>
     \/ /\ ~PageInsideTry
        /\ pc' = "done"
        /\ err' = "surface"
        /\ outcome' = "threw"
        /\ ended' = ended \cup {"render"}
        /\ UNCHANGED <<designReady, totalFrames, i>>
  /\ UNCHANGED <<inputVars, seekVars, nodeVars, request, handlerVars, browser,
                 fsVars, stagingVars, durVars, successfulSeeks, failedSeeks,
                 histVars>>

\* Whether the surface holds a video element (document.querySelector).
HasVideo(objs) == \E k \in 1..Len(objs) : ElemType(objs[k]) = "video"

\* A progress post at every frame.
ReportDueAlways(k) == TRUE

\* if (i % 5 === 0)
ReportDue(k) == k % ProgressEvery = 0

\* Loop head for frame i: the progress post of every fifth frame, the seek,
\* the settle delay and, for the first frames, the accuracy sample.
SeekFrame ==
  /\ pc = "seek"
  /\ i < totalFrames
  /\ events' = IF ReportDue(i)
               THEN Report(RoundPercent(i, totalFrames), "rendering_frames")
               ELSE events
  /\ \E delivered \in BOOLEAN :
       /\ delivered \/ (webhookUrl /\ ReportDue(i))
       /\ ~PostSettles(endpoint) => delivered   \* pending, never rejected
       /\ postFailed' = PostFailedAfter(delivered)
  /\ \/ /\ i < SampledFrames
        /\ \E accurate \in BOOLEAN :
             /\ ~accurate => HasVideo(design)
             /\ successfulSeeks' = IF accurate THEN successfulSeeks + 1 ELSE successfulSeeks
             /\ failedSeeks' = IF accurate THEN failedSeeks ELSE failedSeeks + 1
        /\ pc' = "capture"
        /\ UNCHANGED <<err, ended>>
     \/ /\ i >= SampledFrames
        /\ pc' = "capture"
        /\ UNCHANGED <<successfulSeeks, failedSeeks, err, ended>>
     \/ /\ i < MaxBadFrame
        /\ ThrowInTry("capture")
        /\ ended' = ended \cup {"render"}
        /\ UNCHANGED <<successfulSeeks, failedSeeks>>
  /\ UNCHANGED <<inputVars, seekVars, nodeVars, request, designReady, handlerVars, outcome, browser, fsVars,
                 stagingVars, durVars, totalFrames, i, fallbackCalls, uploads,
                 uploadStatus, encodeExit, mergeAudio, begun>>

\* What stage.toDataURL() hands back: a PNG data URL, a string that is no
\* image, or no string at all.
DataUrls(k) == IF k < MaxBadFrame THEN {"image", "empty", "null"} ELSE {"image"}

\* Whether the loop body writes frame_i.png for the data URL it got:
\* "write", "skip" (continue) or "throw".
PersistStaged(dataUrl) == IF dataUrl = "null" THEN "throw" ELSE "write"

PersistLegacy(dataUrl) == IF dataUrl = "image" THEN "write" ELSE "skip"

Persist(dataUrl) ==
  IF impl = "staged" THEN PersistStaged(dataUrl) ELSE PersistLegacy(dataUrl)

CaptureFrame ==
  /\ pc = "capture"
  /\ \E dataUrl \in DataUrls(i) :
       \/ /\ Persist(dataUrl) = "write"
          /\ frames' = frames \cup {i}
          /\ i' = i + 1
          /\ pc' = "seek"
          /\ UNCHANGED <<err, ended>>
       \/ /\ Persist(dataUrl) = "skip"
          /\ i' = i + 1
          /\ pc' = "seek"
          /\ UNCHANGED <<frames, err, ended>>
       \/ /\ Persist(dataUrl) = "throw"
          /\ ThrowInTry("capture")
          /\ ended' = ended \cup {"render"}
          /\ UNCHANGED <<frames, i>>
  /\ UNCHANGED <<inputVars, seekVars, nodeVars, request, designReady, handlerVars, outcome, browser, workDir,
                 assets, ffFrames, audioFile, mergedOut, stagingVars, durVars,
                 totalFrames, successfulSeeks, failedSeeks, histVars, begun>>

\* ------------------------------------------- seek accuracy and fallback

\* The staged renderVideo's test: failedSeeks > successfulSeeks and the
\* scene is one object whose type is 'video'.
FallbackStaged(objs, ok, bad) ==
  /\ bad > ok
  /\ Len(objs) = 1
  /\ objs[1].type = "video"

\* The legacy renderVideo's test: accuracy below 50 %, the scene one video
\* object whose file exists, and accuracy below 20 %.
FallbackLegacy(objs, ok, bad) ==
  /\ ok + bad > 0
  /\ 100 * ok < LowAccuracy * (ok + bad)
  /\ Len(objs) = 1
  /\ ElemType(objs[1]) = "video"
  /\ objs[1].src # NoSrc
  /\ FileExists(objs[1].src)
  /\ 100 * ok < FallbackAccuracy * (ok + bad)

FallbackDue ==
  IF impl = "staged" THEN FallbackStaged(localDesign, successfulSeeks, failedSeeks)
  ELSE FallbackLegacy(localDesign, successfulSeeks, failedSeeks)

\* The merge entered from inside the loop, before the last frame.
NoFallbackEarly ==
  /\ pc = "seek"
  /\ ~FallbackDue
  /\ ended' = ended \cup {"render"}
  /\ pc' = "reportMerging"
  /\ UNCHANGED <<inputVars, seekVars, nodeVars, request, designReady, handlerVars, err, outcome, browser,
                 fsVars, stagingVars, durVars, loopVars, histVars, begun>>

\* The loop is over and the fallback test fails.
NoFallback ==
  /\ pc = "seek"
  /\ i >= totalFrames
  /\ ~FallbackDue
  /\ ended' = ended \cup {"render"}
  /\ pc' = "reportMerging"
  /\ UNCHANGED <<inputVars, seekVars, nodeVars, request, designReady, handlerVars, err, outcome, browser,
                 fsVars, stagingVars, durVars, loopVars, histVars, begun>>

\* The frame files ffmpeg writes for the pattern frame_%d.png: it numbers
\* its output from 1.
ExtractedFrames(n) == 1..n

\* extractVideoFramesWithFFmpeg(src, framesDir, fps, duration): false when
\* the file is missing or the encoder fails, true when it wrote its frames.
\* The staged renderVideo ignores the result; the legacy one merges and
\* returns at once on true.
FallbackExtract ==
  /\ pc = "seek"
  /\ i >= totalFrames
  /\ FallbackDue
  /\ fallbackCalls' = fallbackCalls + 1
  /\ ended' = ended \cup {"render"}
  /\ \/ /\ localDesign[1].src # NoSrc
        /\ FileExists(localDesign[1].src)
        /\ \E n \in {totalFrames - 1, totalFrames} :
             /\ frames' = frames \cup ExtractedFrames(n)
             /\ ffFrames' = ExtractedFrames(n)
        /\ pc' = IF impl = "staged" THEN "reportMerging" ELSE "mergeFallback"
     \/ /\ pc' = "reportMerging"
        /\ UNCHANGED <<frames, ffFrames>>
  /\ UNCHANGED <<inputVars, seekVars, nodeVars, request, designReady, handlerVars, err, outcome, browser,
                 workDir, assets, audioFile, mergedOut, stagingVars, durVars,
                 loopVars, events, uploads, uploadStatus, encodeExit, mergeAudio,
                 postFailed, begun>>

\* ------------------------------------------------------ merge and upload

\* await reportProgress(90, 'merging_video')
ReportMerging ==
  /\ pc = "reportMerging"
  /\ \E delivered \in BOOLEAN :
       /\ delivered \/ webhookUrl
       /\ AwaitReport(MergingProgress, "merging_video", delivered, "merge")
  /\ UNCHANGED <<inputVars, seekVars, nodeVars, request, designReady, handlerVars, outcome, browser, fsVars,
                 stagingVars, durVars, loopVars, fallbackCalls, uploads,
                 uploadStatus, encodeExit, mergeAudio, stageVars>>

\* Where renderVideo goes when mergeVideo returns: on to the upload, or,
\* after the legacy fallback, straight out of the try block.
AfterMerge == IF pc = "mergeFallback" THEN "finally" ELSE "reportUploading"

\* An encoder command that names an audio input whatever mergeVideo got.
AudioCmdAlways(audio) == TRUE

\* const audioCmd = audio ? `-i "${audio}"` : '': whether the encoder
\* command has an audio input.
AudioCmd(audio) == audio # "null"

\* mergeVideo(framesDir, audioPath, exportId): execSync of the encoder,
\* which writes ../main/storage/app/public/exports/videos/<exportId>.mp4 or
\* exits non-zero, and then mergeVideo rethrows.
MergeVideo ==
  /\ pc \in {"merge", "mergeFallback"}
  /\ begun' = begun \cup {"merge"}
  /\ ended' = ended \cup {"merge"}
  /\ mergeAudio' = IF AudioCmd(audioPath) THEN "audio" ELSE "none"
  /\ \E code \in ExitCodes :
       /\ encodeExit' = code
       /\ IF EncoderOk(code)
          THEN /\ mergedOut' = TRUE
               /\ pc' = AfterMerge
               /\ UNCHANGED err
          ELSE /\ ThrowInTry("encode")
               /\ UNCHANGED mergedOut
  /\ UNCHANGED <<inputVars, seekVars, nodeVars, request, designReady, handlerVars, outcome, browser, workDir,
                 assets, frames, ffFrames, audioFile, stagingVars, durVars,
                 loopVars, events, fallbackCalls, uploads, uploadStatus,
                 postFailed>>

\* await reportProgress(95, 'uploading')
ReportUploading ==
  /\ pc = "reportUploading"
  /\ \E delivered \in BOOLEAN :
       /\ delivered \/ webhookUrl
       /\ AwaitReport(UploadingProgress, "uploading", delivered, "checkVideo")
  /\ UNCHANGED <<inputVars, seekVars, nodeVars, request, designReady, handlerVars, outcome, browser, fsVars,
                 stagingVars, durVars, loopVars, fallbackCalls, uploads,
                 uploadStatus, encodeExit, mergeAudio, stageVars>>

\* existsSync(videoPath) for videoPath = <tmp>/<exportId>/<exportId>.mp4
\* (legacy: <tmp>/<exportId>.mp4).  The encoder's output is written
\* elsewhere, so the file is there only if something else put it there.
\* Missing: reportProgress(100, 'failed') and the try block ends.
CheckVideo ==
  /\ pc = "checkVideo"
  /\ \/ /\ pc' = "upload"
        /\ UNCHANGED <<events, postFailed, err>>
     \/ \E delivered \in BOOLEAN :
          /\ delivered \/ webhookUrl
          /\ AwaitReport(TerminalProgress, "failed", delivered, "finally")
  /\ UNCHANGED <<inputVars, seekVars, nodeVars, request, designReady, handlerVars, outcome, browser, fsVars,
                 stagingVars, durVars, loopVars, fallbackCalls, uploads,
                 uploadStatus, encodeExit, mergeAudio, stageVars>>

\* An upload whose response is never examined.
ResOkAlways(status) == TRUE

\* uploadRes.ok: the status is in the range 200-299.
ResOk(status) == status >= 200 /\ status < 300

\* The events a failed upload leaves: the legacy renderVideo catches the
\* error, reports 'failed' and rethrows; the staged one only rethrows.
UploadFailedEvents ==
  IF impl = "legacy" THEN Report(TerminalProgress, "failed") ELSE events

\* readFile(videoPath) and the multipart POST to /export/webhook/store.
Upload ==
  /\ pc = "upload"
  /\ uploads' = uploads + 1
  /\ begun' = begun \cup {"upload"}
  /\ ended' = ended \cup {"upload"}
  /\ \E status \in UploadStatuses, delivered \in BOOLEAN :
       /\ uploadStatus' = status
       /\ IF ResOk(status)
          THEN /\ delivered \/ webhookUrl
               /\ AwaitReport(TerminalProgress, "completed", delivered,
                              IF impl = "staged" THEN "finally" ELSE "unlink")
          ELSE /\ delivered \/ (webhookUrl /\ impl = "legacy")
               /\ (webhookUrl /\ impl = "legacy") => PostSettles(endpoint)
               /\ events' = UploadFailedEvents
               /\ postFailed' = PostFailedAfter(delivered)
               /\ ThrowInTry("upload")
  /\ UNCHANGED <<inputVars, seekVars, nodeVars, request, designReady, handlerVars, outcome, browser, fsVars,
                 stagingVars, durVars, loopVars, fallbackCalls, encodeExit, mergeAudio>>

\* The legacy clean-up: unlink(videoPath), errors logged only.
UnlinkVideo ==
  /\ pc = "unlink"
  /\ begun' = begun \cup {"cleanup"}
  /\ ended' = ended \cup {"cleanup"}
  /\ pc' = "finally"
  /\ UNCHANGED <<inputVars, seekVars, nodeVars, request, designReady, handlerVars, err, outcome, browser,
                 fsVars, stagingVars, durVars, loopVars, histVars>>

\* ----------------------------------------------------------- finally

Settled(e) == IF e = "none" THEN "returned" ELSE "threw"

\* finally { await browser.close(); ... }: a rejected close leaves the
\* finally block with its own error.
CloseBrowser ==
  /\ pc = "finally"
  /\ \/ /\ browser' = "closed"
        /\ IF impl = "staged"
           THEN pc' = "cleanup" /\ UNCHANGED <<err, outcome>>
           ELSE pc' = "done" /\ outcome' = Settled(err) /\ UNCHANGED err
     \/ /\ err' = "close"
        /\ outcome' = "threw"
        /\ pc' = "done"
        /\ UNCHANGED browser
  /\ UNCHANGED <<inputVars, seekVars, nodeVars, request, designReady, handlerVars, fsVars, stagingVars, durVars,
                 loopVars, histVars, stageVars>>

\* A cleanupExport without its catch block: a failed rm becomes the error
\* renderVideo ends with.
CleanupErrorEscalated(failed, e) == IF failed THEN "cleanup" ELSE e

\* The error renderVideo is left with after cleanupExport: the catch block
\* logs a failed rm, so it is the error there was before.
CleanupError(failed, e) == e

\* cleanupExport(exportId): rm -rf of the working directory when it exists;
\* a failing rm is logged and swallowed.
CleanupExport ==
  /\ pc = "cleanup"
  /\ begun' = begun \cup {"cleanup"}
  /\ ended' = ended \cup {"cleanup"}
  /\ \/ /\ workDir' = FALSE
        /\ assets' = {}
        /\ frames' = {}
        /\ audioFile' = FALSE
        /\ err' = CleanupError(FALSE, err)
     \/ /\ workDir
        /\ err' = CleanupError(TRUE, err)
        /\ UNCHANGED <<workDir, assets, frames, audioFile>>
  /\ outcome' = Settled(err')
  /\ pc' = "done"
  /\ UNCHANGED <<inputVars, seekVars, nodeVars, request, designReady,
                 handlerVars, browser, ffFrames, mergedOut, stagingVars,
                 durVars, loopVars, histVars>>

\* ------------------------------------------------------- specification

Next ==
  \/ HandlerRespond
  \/ HandlerSettle
  \/ RenderWithFFmpeg
  \/ MakeWorkDir
  \/ LaunchBrowser
  \/ PrepareBegin
  \/ StageObject
  \/ PrepareEnd
  \/ ProcessDesignPaths
  \/ ExtractAudio
  \/ ResolveDuration
  \/ LoadSurface
  \/ SeekFrame
  \/ CaptureFrame
  \/ NoFallback
  \/ FallbackExtract
  \/ ReportMerging
  \/ MergeVideo
  \/ ReportUploading
  \/ CheckVideo
  \/ Upload
  \/ UnlinkVideo
  \/ CloseBrowser
  \/ CleanupExport

Spec == Init /\ [][Next]_vars

\* --------------------------------------- scenes with a source-less video
\*
\* The pipeline run for scenes whose first video element has no source.
AudioScenes ==
  { <<Video(NoSrc), Video(UrlA)>>,
    <<Video(NoSrc)>>,
    <<Image(UrlB), Video(UrlA)>> }

InitAudio == InitFor(AudioScenes)

SpecAudio == InitAudio /\ [][Next]_vars

\* ------------------------------------ a webhook that may never answer
\*
\* The pipeline run against a progress webhook that answers its posts or
\* accepts them and never answers; every step is taken when it can be.
SilentScenes == { <<>>, <<Video(UrlA)>> }

InitSilent == InitWith(SilentScenes, {"up", "silent"})

SpecSilent == InitSilent /\ [][Next]_vars

SpecSilentFair == SpecSilent /\ WF_vars(Next)

\* ------------------------------------------------- the in-page seek helper
\*
\* window.__SEEK_VIDEO__(time), which Spec's SeekFrame takes as one step, is
\* followed here timer by timer.  Playback positions and seek targets are in
\* units of 1/fps ms, so that frame k's target k / fps s is the integer
\* 1000 * k; waits are in ms.

\* Math.abs
Abs(x) == IF x < 0 THEN -x ELSE x

\* const time = i / fps
SeekTarget(k) == 1000 * k

\* The tolerance test with <= for <.
NearInclusive(cur, time) == Abs(cur - time) <= SeekTolerance * fps

\* Math.abs(v.currentTime - time) < 0.05
Near(cur, time) == Abs(cur - time) < SeekTolerance * fps

\* A seek promise without its timeout.
SeekTimerNone(near) == -1

\* The timer a seek promise starts: none when it resolves at once,
\* setTimeout(..., 2000) otherwise.
SeekTimerFor(near) == IF near THEN -1 ELSE SeekTimeout

\* Scenes and initial playback positions of the surface's video elements.
SeekScenes == { <<>>, <<Video(UrlA)>>, <<Video(UrlA), Video(UrlA)>> }

StartPositions ==
  {0, SeekTolerance * fps, SeekTarget(3), AccuracyTolerance * fps}

\* renderVideo at the head of its capture loop: the surface is ready, the
\* scene has no audio and the 5 s minimum is the duration.
InitSeek ==
  /\ impl \in {"staged", "legacy"}
  /\ useFFmpeg = FALSE
  /\ webhookUrl = FALSE
  /\ design \in SeekScenes
  /\ hpc = "await"
  /\ responses = 1
  /\ logged = "none"
  /\ pc = "seek"
  /\ err = "none"
  /\ outcome = "none"
  /\ browser = "open"
  /\ workDir = TRUE
  /\ assets = {}
  /\ frames = {}
  /\ ffFrames = {}
  /\ audioFile = FALSE
  /\ mergedOut = FALSE
  /\ localDesign = design
  /\ sIdx = Len(design) + 1
  /\ fetches = [u \in Urls |-> 0]
  /\ stageLog = <<>>
  /\ audioPath = "null"
  /\ audioFrom = 0
  /\ audioDuration = 0
  /\ maxVideoDuration = 0
  /\ duration = MinDuration
  /\ totalFrames = TotalFrames(MinDuration)
  /\ i = 0
  /\ successfulSeeks = 0
  /\ failedSeeks = 0
  /\ events = <<>>
  /\ fallbackCalls = 0
  /\ uploads = 0
  /\ begun = {"staging", "resolve", "render"}
  /\ ended = {"staging", "resolve"}
  /\ uploadStatus = 0
  /\ encodeExit = -1
  /\ postFailed = FALSE
  /\ mergeAudio = "unset"
  /\ designReady = TRUE
  /\ jobAt = [j \in Jobs |-> 1]
  /\ jobPhase = [j \in Jobs |-> "ready"]
  /\ thread = "free"
  /\ request = NoRequest
  /\ endpoint = "up"
  /\ currentTime \in [Videos(design) -> StartPositions]
  /\ seekMode = [v \in Videos(design) |-> "idle"]
  /\ seekTimer = [v \in Videos(design) |-> -1]
  /\ waited = 0
  /\ seekedSeen = FALSE

jobVars == <<inputVars, nodeVars, request, designReady, handlerVars, err, outcome, browser, fsVars, stagingVars,
             durVars, loopVars, histVars, stageVars>>

\* page.evaluate(t => window.__SEEK_VIDEO__(t), i / fps): the executor of
\* every element's promise runs.  An element already within the tolerance
\* resolves at once; any other gets the listener, the timer and the
\* assignment to currentTime, after which it reports the new position or,
\* on a misbehaving surface, the old one.
SeekCall ==
  /\ pc = "seek"
  /\ i < totalFrames
  /\ LET time == SeekTarget(i)
         near == [v \in Videos(design) |-> Near(currentTime[v], time)]
     IN /\ seekMode' = [v \in Videos(design) |->
                          IF near[v] THEN "near" ELSE "pending"]
        /\ seekTimer' = [v \in Videos(design) |-> SeekTimerFor(near[v])]
        /\ \E stuck \in SUBSET Videos(design) :
             /\ i >= MaxBadFrame => stuck = {}
             /\ \A v \in stuck : ~near[v]
             /\ currentTime' = [v \in Videos(design) |->
                                  IF near[v] \/ v \in stuck
                                  THEN currentTime[v] ELSE time]
  /\ waited' = 0
  /\ pc' = "seeking"
  /\ UNCHANGED <<jobVars, seekedSeen>>

\* The element fires 'seeked' while its listener is registered: onSeeked
\* removes the listener and resolves.  (The timer stays armed in the page;
\* when it fires later it finds nothing to do.)
SeekedEvent(v) ==
  /\ pc = "seeking"
  /\ seekMode[v] = "pending"
  /\ seekMode' = [seekMode EXCEPT ![v] = "seeked"]
  /\ seekTimer' = [seekTimer EXCEPT ![v] = -1]
  /\ seekedSeen' = TRUE
  /\ UNCHANGED <<jobVars, pc, currentTime, waited>>

\* Time passes while a promise is pending, up to the next timer's expiry.
Tick ==
  /\ pc = "seeking"
  /\ \E v \in Videos(design) : seekMode[v] = "pending" /\ seekTimer[v] > 0
  /\ \A v \in Videos(design) : seekTimer[v] # 0
  /\ LET left == {seekTimer[v] : v \in Videos(design)} \ {-1}
         d == IF \A t \in left : t >= TickMs THEN TickMs
              ELSE CHOOSE t \in left : \A u \in left : t <= u
     IN /\ seekTimer' = [v \in Videos(design) |->
                           IF seekTimer[v] > 0 THEN seekTimer[v] - d
                           ELSE seekTimer[v]]
        /\ waited' = waited + d
  /\ UNCHANGED <<jobVars, pc, currentTime, seekMode, seekedSeen>>

\* The timeout callback: removes the listener and resolves.
TimerFire(v) ==
  /\ pc = "seeking"
  /\ seekMode[v] = "pending"
  /\ seekTimer[v] = 0
  /\ seekMode' = [seekMode EXCEPT ![v] = "timeout"]
  /\ seekTimer' = [seekTimer EXCEPT ![v] = -1]
  /\ UNCHANGED <<jobVars, pc, currentTime, waited, seekedSeen>>

\* Promise.race in the place of Promise.all.
PromiseRace(modes) ==
  DOMAIN modes = {}
    \/ \E v \in DOMAIN modes : modes[v] \in {"near", "seeked", "timeout"}

\* Promise.all(seekPromises): fulfilled once every promise has resolved.
PromiseAll(modes) ==
  \A v \in DOMAIN modes : modes[v] \in {"near", "seeked", "timeout"}

\* Promise.all(seekPromises) resolves (at once when there is no video
\* element), the stage is redrawn and page.evaluate returns.
SeekReturn ==
  /\ pc = "seeking"
  /\ PromiseAll(seekMode)
  /\ pc' = "settle"
  /\ UNCHANGED <<inputVars, nodeVars, request, designReady, handlerVars, err, outcome,
                 browser, fsVars, stagingVars, durVars, loopVars, histVars,
                 stageVars, seekVars>>

\* The accuracy test with <= for <.
AccurateInclusive(cur, time) == Abs(cur - time) <= AccuracyTolerance * fps

\* Math.abs(v.currentTime - t) < 0.5
Accurate(cur, time) == Abs(cur - time) < AccuracyTolerance * fps

\* document.querySelector('video'): the first video element of the surface.
FirstVideoOf(vs) == CHOOSE v \in vs : \A w \in vs : v <= w

\* The accuracy sample of part_001: the first video element's position, and
\* 0 when the surface has none.
SampleStaged(time) ==
  Videos(design) = {}
    \/ Accurate(currentTime[FirstVideoOf(Videos(design))], time)

\* The accuracy sample of captureFrames.ts: every video element's position.
SampleLegacy(time) ==
  \A v \in Videos(design) : Accurate(currentTime[v], time)

Sample(time) ==
  IF impl = "staged" THEN SampleStaged(time) ELSE SampleLegacy(time)

\* After page.evaluate has returned: the settle delay (setTimeout of 50 ms)
\* elapses and, for the first SampledFrames frames, the accuracy sample is
\* taken and counted.
SettleAndSample ==
  /\ pc = "settle"
  /\ IF i < SampledFrames
     THEN IF Sample(SeekTarget(i))
          THEN /\ successfulSeeks' = successfulSeeks + 1
               /\ UNCHANGED failedSeeks
          ELSE /\ failedSeeks' = failedSeeks + 1
               /\ UNCHANGED successfulSeeks
     ELSE UNCHANGED <<successfulSeeks, failedSeeks>>
  /\ pc' = "capture"
  /\ UNCHANGED <<inputVars, nodeVars, request, designReady, handlerVars, err, outcome,
                 browser, fsVars, stagingVars, durVars, totalFrames, i,
                 histVars, stageVars, seekVars>>

NextSeek ==
  \/ SeekCall
  \/ \E v \in Videos(design) : SeekedEvent(v)
  \/ Tick
  \/ \E v \in Videos(design) : TimerFire(v)
  \/ SeekReturn
  \/ SettleAndSample
  \/ CaptureFrame

SpecSeek == InitSeek /\ [][NextSeek]_vars

\* Timers run and expire, and renderVideo takes its next step when it can;
\* nothing obliges an element to fire 'seeked'.
SeekProgress ==
  \/ SeekCall
  \/ Tick
  \/ \E v \in Videos(design) : TimerFire(v)
  \/ SeekReturn
  \/ SettleAndSample
  \/ CaptureFrame

SpecSeekFair == SpecSeek /\ WF_vars(SeekProgress)

\* ================================================================ claims

\* C1: after renderVideo has finished on any path, the job's working
\* directory <tmp>/<exportId> no longer exists.
C1_WorkDirRemoved == pc = "done" => ~workDir

\* C2: when a stage-level failure (surface, encoder, upload) makes
\* renderVideo throw and a webhook is configured, a progress event with
\* status failed has been sent before the error reaches the caller.
C2_FailedEventBeforeRethrow ==
  (outcome = "threw" /\ err \in {"surface", "encode", "upload"} /\ webhookUrl)
    => \E k \in 1..Len(events) : events[k].status = "failed"

\* The success ratio among the sampled frames is below one half.
LowSuccessRatio == 2 * successfulSeeks < successfulSeeks + failedSeeks

\* The scene consists of exactly one element, and it is a video.
SingleVideoScene == Len(design) = 1 /\ ElemType(design[1]) = "video"

\* C3: once the loop is over, the fallback extractor has been invoked if
\* and only if the success ratio of the sampled frames is below the
\* threshold and the scene is exactly one video element.
C3_FallbackIff ==
  pc \in {"reportMerging", "mergeFallback"}
    => (fallbackCalls = 1 <=> (LowSuccessRatio /\ SingleVideoScene))

\* C4: the resolved export duration is the largest of the maximum probed
\* video duration, the audio duration and 5 seconds, hence at least 5 s.
C4_FinalDuration ==
  "resolve" \in ended =>
    /\ duration >= maxVideoDuration
    /\ duration >= audioDuration
    /\ duration >= 5000
    /\ duration \in {maxVideoDuration, audioDuration, 5000}

\* A 3 s video with 8 s of audio resolves to 8 s.
C4_Witness ==
  /\ "resolve" \in ended
  /\ maxVideoDuration = 3000
  /\ audioDuration = 8000
  /\ duration = 8000

\* C5: when the capture loop completes, totalFrames = floor(duration * fps)
\* and the persisted frames are exactly 0..totalFrames-1, also when some
\* captured image was invalid.
C5_FramesContiguous ==
  (pc = "seek" /\ i >= totalFrames) =>
    /\ totalFrames = (duration * 24) \div 1000
    /\ frames = 0..(totalFrames - 1)

\* Calls of downloadAsset for the same remote URL, the first before the
\* second.
SameUrlCalls ==
  {c \in (1..Len(stageLog)) \X (1..Len(stageLog)) :
     /\ c[1] < c[2]
     /\ stageLog[c[1]].url = stageLog[c[2]].url
     /\ IsRemote(stageLog[c[1]].url)}

\* C6 as stated: staging the same remote URL twice yields the same local
\* path on both calls and performs exactly one download.
C6_SamePathOneDownload ==
  \A c \in SameUrlCalls :
    /\ stageLog[c[1]].result = AssetPath(stageLog[c[1]].url)
    /\ stageLog[c[2]].result = AssetPath(stageLog[c[2]].url)
    /\ fetches[stageLog[c[1]].url] = 1

\* C6 as amended: once a remote URL has been downloaded, every later
\* staging of it yields the same local path from the cache; fetches are
\* made only on cache misses, and at most one of them succeeds per URL.
C6_CachedAfterSuccess ==
  /\ \A c \in SameUrlCalls :
       stageLog[c[1]].result = AssetPath(stageLog[c[1]].url)
         => /\ stageLog[c[2]].hit
            /\ stageLog[c[2]].result = stageLog[c[1]].result
  /\ \A u \in Urls :
       /\ fetches[u] =
            Cardinality({k \in 1..Len(stageLog) :
                           stageLog[k].url = u /\ ~stageLog[k].hit})
       /\ Cardinality({k \in 1..Len(stageLog) :
                         stageLog[k].url = u /\ ~stageLog[k].hit /\ stageLog[k].ok}) <= 1

\* The same URL staged twice, downloaded once.
C6_Witness ==
  \E c \in SameUrlCalls :
    /\ stageLog[c[1]].result = AssetPath(stageLog[c[1]].url)
    /\ stageLog[c[2]].result = AssetPath(stageLog[c[2]].url)
    /\ fetches[stageLog[c[1]].url] = 1

\* downloadAsset calls whose download failed.
FailedDownloads ==
  {k \in 1..Len(stageLog) :
     IsRemote(stageLog[k].url) /\ ~stageLog[k].hit /\ ~stageLog[k].ok}

\* C7: a failed download never aborts the job: the element keeps its
\* remote reference, every other element with a source is still staged,
\* and staging goes on to duration resolution with no error raised.
C7_DownloadFailureNonFatal ==
  /\ [](\A k \in FailedDownloads :
          /\ stageLog[k].result = stageLog[k].url
          /\ localDesign[stageLog[k].obj].src = design[stageLog[k].obj].src
          /\ localDesign[stageLog[k].obj].originalSrc = NoSrc)
  /\ []((FailedDownloads # {} /\ "staging" \in ended) =>
          {stageLog[k].obj : k \in 1..Len(stageLog)}
            = {k \in 1..Len(design) : design[k].src # NoSrc})
  /\ [][(pc = "stageObj" /\ FailedDownloads' # {})
          => (pc' \in {"stageObj", "audio"} /\ err' = "none" /\ outcome' = "none")]_vars

\* A job whose first download failed has reached duration resolution with
\* the second element staged.
C7_Witness ==
  /\ "resolve" \in begun
  /\ 1 \in FailedDownloads
  /\ Len(stageLog) = 2
  /\ localDesign[2].src # design[2].src

\* C8: the "started" response is sent exactly once, before any pipeline
\* step, and the handler ends with that single response whatever the
\* renderer's outcome, the failure being caught and logged.
C8_StartedOnceFirst ==
  /\ responses <= 1
  /\ pc # "idle" => responses = 1
  /\ responses = 0 => (begun = {} /\ ~workDir /\ browser = "none")
  /\ hpc = "done" => (responses = 1 /\ logged = HandlerLog(outcome))

\* The handler has settled after a failed export.
C8_Witness == hpc = "done" /\ outcome = "threw" /\ responses = 1

StageRank(s) ==
  CASE s = "staging" -> 1
    [] s = "resolve" -> 2
    [] s = "render" -> 3
    [] s = "merge" -> 4
    [] s = "upload" -> 5
    [] s = "cleanup" -> 6

\* C9: the stages run in the order staging, duration resolution, render,
\* merge, upload, cleanup: a stage begins only after every stage begun
\* before it has finished, and only stages of lower rank were begun before;
\* no frame exists before the duration is resolved and merge starts only
\* after the last frame of the loop.
C9_StagesInOrder ==
  /\ [][\A s \in begun' \ begun :
          \A t \in begun : StageRank(t) < StageRank(s) /\ t \in ended]_vars
  /\ [](frames # {} => "resolve" \in ended)
  /\ []("merge" \in begun => ("render" \in ended /\ i >= totalFrames))
  /\ []("upload" \in begun => "merge" \in ended)

\* A run that went through all six stages.
C9_Witness ==
  begun = {"staging", "resolve", "render", "merge", "upload", "cleanup"}

\* C10: whenever the merger has returned successfully, the merged artifact
\* is submitted to the upload endpoint before the run ends.
C10_MergedIsUploaded == (pc = "done" /\ mergedOut) => uploads >= 1

\* Whether a progress event with status s was initiated.
HasEvent(s) == \E k \in 1..Len(events) : events[k].status = s

\* C11: a completed event is sent only after the upload endpoint answered
\* with a 2xx status; after any other answer renderVideo rejects and the run
\* never has a completed event.
C11_CompletedOnlyAfterUploadOk ==
  /\ HasEvent("completed") => uploadStatus \in 200..299
  /\ (uploads > 0 /\ uploadStatus \notin 200..299) =>
       /\ ~HasEvent("completed")
       /\ err # "none"
       /\ pc = "done" => outcome = "threw"

C11_Witness ==
  /\ webhookUrl
  /\ uploads = 1
  /\ uploadStatus = 500
  /\ pc = "done"
  /\ outcome = "threw"

\* Whether the encoder run by mergeVideo exited with a non-zero code.
MergeFailed == ~useFFmpeg /\ encodeExit \notin {-1, 0}

\* What every run in which mergeVideo's encoder exited non-zero shows:
\* no output, no upload request, no uploading or completed event.
NothingAfterFailedMerge ==
  /\ ~mergedOut
  /\ uploads = 0
  /\ ~HasEvent("uploading")
  /\ ~HasEvent("completed")

C13_SeekSnapping ==
  [][ /\ (pc = "seek" /\ pc' = "seeking") =>
           \A v \in Videos(design) :
             IF Abs(currentTime[v] - 1000 * i) < SeekTolerance * fps
             THEN /\ seekMode'[v] = "near"
                  /\ seekTimer'[v] = -1
                  /\ currentTime'[v] = currentTime[v]
             ELSE /\ seekMode'[v] = "pending"
                  /\ seekTimer'[v] = SeekTimeout
                  /\ currentTime'[v] \in {1000 * i, currentTime[v]}
      /\ \A v \in Videos(design) :
           /\ seekMode[v] = "near" => currentTime'[v] = currentTime[v] \/ pc = "seek"
           /\ (seekMode[v] = "pending" /\ seekMode'[v] # "pending") =>
                \/ seekMode'[v] = "seeked" /\ waited <= SeekTimeout
                \/ seekMode'[v] = "timeout" /\ waited = SeekTimeout
      /\ pc' = "seeking" => waited' <= SeekTimeout
      /\ (pc' = "seeking" /\ \A v \in Videos(design) : seekMode'[v] = "near")
           => waited' = 0 ]_vars

\* Two elements, one within the tolerance and one not: the first resolved
\* at once at its old position, the second timed out.
C13_Witness ==
  /\ pc = "capture"
  /\ Videos(design) = {1, 2}
  /\ seekMode[1] = "near"
  /\ currentTime[1] = SeekTolerance * fps
  /\ seekMode[2] = "timeout"
  /\ waited = SeekTimeout

\* C14: although no element ever fires 'seeked', every __SEEK_VIDEO__ call
\* returns, and the capture loop reaches its end or the job fails.
C14_LoopAdvances ==
  /\ [](pc = "seeking" => <>(pc = "capture"))
  /\ <>((pc = "seek" /\ i = totalFrames) \/ pc = "finally")

\* The loop is over, seeks were waited for and no 'seeked' was ever fired.
C14_Witness ==
  /\ pc = "seek"
  /\ i = totalFrames
  /\ ~seekedSeen
  /\ Videos(design) # {}
  /\ \A v \in Videos(design) : currentTime[v] = SeekTarget(totalFrames - 2)

\* C15: within a job no frame index is written both by the capture loop and
\* by the fallback extractor.  (When the extractor runs, the frame files
\* present are those the loop wrote.)
C15_SingleWriter ==
  [][ffFrames' # ffFrames => frames \cap ffFrames' = {}]_vars

\* The source frame held by the extractor's file number k: ffmpeg numbers
\* the files of frame_%d.png from 1, so file k is its k-th output frame,
\* which shows the source at (k - 1) / fps s.
ExtractedSourceIndex(k) == k - 1

\* C16: when the fallback extractor has succeeded, the frames handed to the
\* merger at the indices 0..totalFrames-1 were all written by the extractor,
\* the frame at index k showing the source at k / fps.
C16_FallbackFramesFromSource ==
  (pc \in {"merge", "mergeFallback"} /\ ffFrames # {}) =>
     \A k \in 0..(totalFrames - 1) :
        /\ k \in ffFrames
        /\ ExtractedSourceIndex(k) = k

\* File paths, as <<root, job directory, subdirectory, name, number>>.
ExportIds == {"e1", "e2"}

\* join(framesDir, `frame_${i}.png`): framesDir is <tmp>/<id>/frames in the
\* staged renderVideo and <tmp>/<id> in the legacy one.
FramePath(e, k) ==
  <<"tmp", e, IF impl = "staged" THEN "frames" ELSE "", "frame", k>>

\* join(tmpdir(), exportId, 'assets', md5(url) + ext)
AssetFile(e, url) == <<"tmp", e, "assets", url[2], 0>>

\* join(outputDir || tmpdir(), 'audio.aac'): the staged renderVideo passes
\* its base directory, the legacy one passes nothing.
AudioOut(e) ==
  <<"tmp", IF impl = "staged" THEN e ELSE "", "", "audio.aac", 0>>

\* join('..', 'main', 'storage', 'app', 'public', 'exports', 'videos',
\* `${exportId}.mp4`)
MergedPath(e) == <<"main", "", "exports/videos", e, 0>>

\* The files a job with export id e has on disk in the present state.
FilesOf(e) ==
  {FramePath(e, k) : k \in frames}
    \cup {AssetFile(e, u) : u \in assets}
    \cup (IF audioFile THEN {AudioOut(e)} ELSE {})
    \cup (IF mergedOut THEN {MergedPath(e)} ELSE {})

\* <tmp>/<exportId>/...
InWorkDir(p, e) == p[1] = "tmp" /\ p[2] = e

\* C18: two jobs with distinct export ids, each as far as the present state,
\* have no file path in common, and every file of a job lies inside its
\* working directory <tmp>/<exportId>.
C18_JobFilesDisjoint ==
  \A e1 \in ExportIds :
     /\ \A p \in FilesOf(e1) : InWorkDir(p, e1)
     /\ \A e2 \in ExportIds \ {e1} : FilesOf(e1) \cap FilesOf(e2) = {}

\* C20: after staging, every element whose source was replaced by a local
\* file has that file as src and the reference it had before as
\* originalSrc.
C20_OriginalRetained ==
  "staging" \in ended =>
     \A k \in 1..Len(localDesign) :
        localDesign[k].src # design[k].src =>
           /\ localDesign[k].src[1] \in {"asset", "local"}
           /\ localDesign[k].originalSrc = design[k].src

\* C17: whatever became of the progress posts, renderVideo fails only for
\* a cause of its own (browser launch, surface, capture, encoder, upload,
\* browser close), never for a post, and it returns iff none of them
\* occurred.
C17_PostFailureHarmless ==
  /\ err \in {"none", "launch", "surface", "capture", "encode", "upload", "close"}
  /\ (pc = "done" /\ ~useFFmpeg) => (outcome = "returned" <=> err = "none")

\* A run with rejected posts that uploaded, reported completion and
\* returned.
C17_Witness ==
  /\ postFailed
  /\ uploads = 1
  /\ HasEvent("merging_video")
  /\ HasEvent("completed")
  /\ pc = "done"
  /\ outcome = "returned"

\* C19: no step of the handler or of renderVideo changes the scene
\* description the caller passed; staging and path mapping write to their
\* own copy only.
C19_DesignNotMutated == [][design' = design]_vars

\* renderVideo has ended, staging rewrote sources in its copy, and the
\* caller's scene is as submitted.
C19_Witness ==
  /\ pc = "done"
  /\ "staging" \in ended
  /\ localDesign # design
  /\ design \in Scenes

\* const videoPath = join(baseDir, `${exportId}.mp4`), the file the
\* uploader checks and reads; the legacy renderVideo has
\* join(framesDir, '..', `${exportId}.mp4`), i.e. <tmp>/<exportId>.mp4.
VideoPath(e) == <<"tmp", IF impl = "staged" THEN e ELSE "", "", e, 0>>

\* C21: the file the merger has written is the file the uploader checks
\* and reads, <tmp>/<exportId>/<exportId>.mp4 inside the job's working
\* directory.
C21_MergedWhereUploaderLooks ==
  mergedOut =>
     \A e \in ExportIds :
        /\ MergedPath(e) = VideoPath(e)
        /\ InWorkDir(MergedPath(e), e)

RECURSIVE FirstPlayableVideo(_)
\* The first video element that has a source: its index, or 0.
FirstPlayableVideo(objs) ==
  IF objs = <<>> THEN 0
  ELSE IF ElemType(Head(objs)) = "video" /\ Head(objs).src # NoSrc THEN 1
  ELSE LET r == FirstPlayableVideo(Tail(objs)) IN IF r = 0 THEN 0 ELSE r + 1

\* C22: the element whose audio extractAudio has the encoder extract is
\* the first video element that has a source, video elements without a
\* source being skipped.
C22_FirstPlayableVideo ==
  (pc \notin {"idle", "start", "launch", "prepare", "stageObj", "stage", "audio"}
     /\ ~useFFmpeg /\ localDesign # <<>>)
    => audioFrom = FirstPlayableVideo(localDesign)

\* C23: extractAudio never raises: it returns to renderVideo with or
\* without a path.  Without one the audio contributes 0 to the duration, and
\* the encoder command mergeVideo runs later has no audio input.
C23_AudioFailureNonFatal ==
  [][ /\ pc = "audio" => (pc' = "probe" /\ err' = "none" /\ outcome' = "none")
      /\ (pc = "probe" /\ audioPath = "null") => audioDuration' = 0
      /\ (pc \in {"merge", "mergeFallback"} /\ audioPath = "null")
           => mergeAudio' = "none" ]_vars

\* The encoder failed to extract the audio of a video element, and the job
\* went on to capture all frames and to merge them without audio.
C23_Witness ==
  /\ audioFrom # 0
  /\ audioPath = "null"
  /\ audioDuration = 0
  /\ i = totalFrames
  /\ mergeAudio = "none"
  /\ mergedOut

\* -------------------------------------------------- jobs on one thread

\* The calls of renderVideo at which a job leaves its JavaScript, in the
\* order one job makes them.
Points == <<"download", "audio", "probe", "surface", "post", "seek",
            "capture", "merge", "upload">>

\* How a call waits: fetch and the page's calls are awaited promises, which
\* hand the thread back to the event loop; execSync returns only when the
\* child process has exited and keeps the thread for that long.
Kind(p) == IF p \in {"audio", "probe", "merge"} THEN "sync" ELSE "async"

PastEnd == Len(Points) + 1

\* Job j runs its JavaScript up to its next call and makes it.
Begin(j) ==
  /\ jobAt[j] < PastEnd
  /\ jobPhase[j] = "ready"
  /\ thread = "free"
  /\ jobPhase' = [jobPhase EXCEPT ![j] = "waiting"]
  /\ thread' = IF Kind(Points[jobAt[j]]) = "sync" THEN j ELSE "free"
  /\ UNCHANGED <<jobAt, inputVars, seekVars, request, designReady, handlerVars, pc, err,
                 outcome, browser, fsVars, stagingVars, durVars, loopVars,
                 histVars, stageVars>>

\* The call of job j comes back: execSync returns on the thread it held; the
\* continuation of an awaited promise runs once the thread is free.
Finish(j) ==
  /\ jobAt[j] < PastEnd
  /\ jobPhase[j] = "waiting"
  /\ IF Kind(Points[jobAt[j]]) = "sync" THEN thread = j ELSE thread = "free"
  /\ jobAt' = [jobAt EXCEPT ![j] = @ + 1]
  /\ jobPhase' = [jobPhase EXCEPT ![j] = "ready"]
  /\ thread' = "free"
  /\ UNCHANGED <<inputVars, seekVars, request, designReady, handlerVars, pc, err,
                 outcome, browser, fsVars, stagingVars, durVars, loopVars,
                 histVars, stageVars>>

JobStep(j) == Begin(j) \/ Finish(j)

InitNode == InitFor({<<>>}) /\ impl = "staged" /\ ~useFFmpeg

NextNode == \E j \in Jobs : Begin(j) \/ Finish(j)

SpecNode == InitNode /\ [][NextNode]_vars

\* The suspension points the concurrency contract lists.
ListedPoints == {"download", "probe", "surface", "seek", "capture", "post",
                 "upload"}

\* C24: while one job waits at a listed suspension point (asset download,
\* duration probe, surface load, per-frame seek, per-frame capture, progress
\* post, upload request), every other unfinished job is able to take a step.
C24_SuspensionDoesNotBlock ==
  \A a \in Jobs : \A b \in Jobs \ {a} :
    ( /\ jobPhase[a] = "waiting"
      /\ jobAt[a] < PastEnd
      /\ Points[jobAt[a]] \in ListedPoints
      /\ jobAt[b] < PastEnd )
    => ENABLED JobStep(b)

\* C25: loading the scene blocks until the surface signals readiness: no
\* seek, accuracy sample or frame capture happens unless the readiness flag
\* was observed true, and a job whose ready wait ended without the flag
\* aborts with an error, having captured no frame.
C25_ReadyBeforeCapture ==
  /\ ( \/ pc \in {"seek", "capture"}
       \/ i > 0
       \/ frames # {}
       \/ successfulSeeks + failedSeeks > 0 ) => designReady
  /\ ("render" \in begun /\ pc # "newPage" /\ ~designReady /\ ~useFFmpeg)
       => /\ err # "none"
          /\ outcome # "returned"
          /\ frames = {}
          /\ i = 0
          /\ pc \in {"finally", "cleanup", "done"}

C25_Witness ==
  /\ "render" \in begun
  /\ ~designReady
  /\ err = "surface"
  /\ outcome = "threw"
  /\ frames = {}

\* C26: a scene without media elements resolves to the 5 s floor, and its
\* completed capture loop has captured exactly 5 * fps frames.
C26_NoMediaScene ==
  (~HasVideo(design) /\ ~useFFmpeg) =>
    /\ "resolve" \in ended => (audioPath = "null" /\ duration = MinDuration)
    /\ (pc = "seek" /\ i >= totalFrames) =>
         /\ totalFrames = 5 * fps
         /\ Cardinality(frames) = 5 * fps

\* C27: in the capture loop the steps of frame i happen in the order seek
\* resolved, settle delay, capture, persist: the settle delay starts only
\* when every element's seek promise has resolved, a frame file is written
\* only by the persist step of the current index, after every file already
\* written, and the seek of the next index starts only after that step.
C27_LoopOrder ==
  [][ /\ (pc' = "seeking" /\ pc # "seeking") =>
           (pc = "seek" /\ \A k \in frames : k < i)
      /\ (pc' = "settle" /\ pc # "settle") =>
           ( /\ pc = "seeking"
             /\ \A v \in Videos(design) :
                  seekMode[v] \in {"near", "seeked", "timeout"} )
      /\ (pc' = "capture" /\ pc # "capture") => pc = "settle"
      /\ frames' # frames =>
           ( /\ pc = "capture"
             /\ frames' = frames \cup {i}
             /\ \A k \in frames : k < i
             /\ i' = i + 1
             /\ pc' = "seek" )
      /\ i' # i => (pc = "capture" /\ i' = i + 1 /\ pc' = "seek")
    ]_vars

C27_Witness ==
  /\ pc = "seek"
  /\ i = 3
  /\ frames = {0, 1, 2}
  /\ Videos(design) # {}
  /\ \E v \in Videos(design) : seekMode[v] = "timeout"

\* C28: a per-frame failure does not abort the job: whatever image the
\* capture of frame i returned (a valid one, an empty one or none at all),
\* the loop goes on to frame i + 1 and renderVideo does not reject.
C28_FrameFailureNotFatal ==
  [][ pc = "capture" => (pc' = "seek" /\ i' = i + 1 /\ err' = err) ]_vars

\* Element v reports a playback position less than 0.5 s from the target of
\* frame i.
WithinHalfSecond(v) ==
  Abs(currentTime[v] - SeekTarget(i)) < AccuracyTolerance * fps

Min2(a, b) == IF a <= b THEN a ELSE b

\* C29: seek accuracy is sampled for frames 0..4 only: each of them adds
\* one to exactly one counter, to the successes when the reported position
\* is less than 0.5 s from the target (always, for a surface without video)
\* and to the failures when it is not; no later frame and no other step
\* changes the counters, so that after i frames successes + failures is
\* min(i, 5), and min(5, totalFrames) after the loop.
C29_SampleFirstFrames ==
  /\ [](pc = "seek" => successfulSeeks + failedSeeks = Min2(i, SampledFrames))
  /\ [][ LET ok == successfulSeeks' = successfulSeeks + 1 /\ failedSeeks' = failedSeeks
             ko == failedSeeks' = failedSeeks + 1 /\ successfulSeeks' = successfulSeeks
             same == successfulSeeks' = successfulSeeks /\ failedSeeks' = failedSeeks
             vs == Videos(design)
         IN /\ (pc = "settle" /\ i < 5) =>
                 /\ ok \/ ko
                 /\ (\A v \in vs : WithinHalfSecond(v)) => ok
                 /\ (\A v \in vs : ~WithinHalfSecond(v)) => (ko \/ vs = {})
            /\ ~(pc = "settle" /\ i < 5) => same
       ]_vars

C29_Witness ==
  /\ pc = "seek"
  /\ i = totalFrames
  /\ totalFrames > SampledFrames
  /\ successfulSeeks = 4
  /\ failedSeeks = 1

\* C30: a sampled frame whose seek ended by the 2 s timeout of some element,
\* not by its 'seeked' event, is recorded as a failed accuracy sample.
C30_TimeoutCountsAsFailure ==
  [][ ( /\ pc = "settle"
        /\ i < SampledFrames
        /\ \E v \in Videos(design) : seekMode[v] = "timeout" )
      => failedSeeks' = failedSeeks + 1 ]_vars

\* p is Math.round(100 * k / n): the integer nearest to the quotient, the
\* upper one of two equally near.
IsRounded(p, k, n) == 2 * p * n <= 200 * k + n /\ 200 * k + n < 2 * (p + 1) * n

\* C31: in the capture loop a progress event is initiated at frame i exactly
\* when a webhook is configured and i mod 5 = 0; it has status
\* rendering_frames and percent round(i / totalFrames * 100); a
\* rendering_frames event is initiated by no other step.
C31_ProgressEveryFifth ==
  [][ /\ (pc = "seek" /\ i < totalFrames /\ pc' # "seek") =>
           IF webhookUrl /\ i % 5 = 0
           THEN /\ Len(events') = Len(events) + 1
                /\ SubSeq(events', 1, Len(events)) = events
                /\ events'[Len(events')].status = "rendering_frames"
                /\ IsRounded(events'[Len(events')].progress, i, totalFrames)
           ELSE events' = events
      /\ ( /\ Len(events') > Len(events)
           /\ events'[Len(events')].status = "rendering_frames" )
           => (pc = "seek" /\ i < totalFrames /\ i % 5 = 0 /\ webhookUrl)
    ]_vars

C31_Witness ==
  /\ webhookUrl
  /\ totalFrames = 192
  /\ i = 6
  /\ Len(events) = 2
  /\ events[2] = [progress |-> 3, status |-> "rendering_frames"]

\* ------------------------------------------- the request interceptor
\*
\* page.on('request', ...): the handler of the requests the rendering
\* surface makes, followed for one request at a time.  A file of size n has
\* the bytes 1..n at the offsets 0..n-1; a buffer freshly allocated holds
\* zeros.

\* Sizes of the staged files and the byte ranges a request may carry:
\* <<>> for no Range header, <<start, -1>> for 'bytes=start-'.
FileSizes == 1..MaxFileSize

Ranges ==
  {<<>>} \cup {<<a, b>> : a \in 0..MaxFileSize, b \in (-1)..MaxFileSize}

FileByte(offset) == offset + 1

\* readFile(): the whole file.
WholeFile(size) == [k \in 1..size |-> FileByte(k - 1)]

\* Buffer.alloc(chunksize) filled by fileHandle.read(buffer, 0, chunksize,
\* start): the bytes the file has from start on, zeros after its end.
ReadChunk(start, chunksize, size) ==
  [k \in 1..chunksize |->
     IF start + k - 1 < size THEN FileByte(start + k - 1) ELSE 0]

\* Whether the handler serves the request from disk: part_001 any URL that
\* names an existing local file, captureFrames.ts a video URL under
\* /storage/ whose local file exists.
ServedLocally(r) ==
  IF impl = "staged"
  THEN r.url = "local" /\ r.exists
  ELSE r.url = "local" /\ r.asset = "video" /\ r.exists

\* isVideo && request.headers().range
Ranged(r) == r.asset = "video" /\ r.range # <<>>

\* parts[1] ? parseInt(parts[1], 10) : fileSize - 1
RangeEnd(r) == IF r.range[2] = -1 THEN r.size - 1 ELSE r.range[2]

\* (end - start) + 1
ChunkSize(r) == (RangeEnd(r) - r.range[1]) + 1

\* The response the handler builds for a request it serves.
ResponseFor(r) ==
  IF Ranged(r)
  THEN [status |-> 206, acceptRanges |-> TRUE,
        contentRange |-> <<r.range[1], RangeEnd(r), r.size>>,
        contentLength |-> ChunkSize(r),
        body |-> ReadChunk(r.range[1], ChunkSize(r), r.size)]
  ELSE [status |-> 200, acceptRanges |-> TRUE, contentRange |-> <<>>,
        contentLength |-> r.size, body |-> WholeFile(r.size)]

\* A catch block that only logs.
AfterServeErrorSwallow(e) == "none"

\* catch (e) { console.error(...); request.continue(); }
AfterServeError(e) == "continue"

\* The surface makes a request and puppeteer pauses it.
RequestArrives ==
  /\ request.phase \in {"none", "done"}
  /\ \E u \in {"data", "local", "remote"}, a \in {"video", "image"},
        x \in BOOLEAN, n \in FileSizes, rg \in Ranges :
       /\ u # "local" => (~x /\ n = 1)
       /\ ~x => n = 1
       /\ request' = [url |-> u, asset |-> a, exists |-> x, size |-> n,
                      range |-> rg, phase |-> "pending", responded |-> 0,
                      continued |-> 0, response |-> NoResponse]
  /\ UNCHANGED <<inputVars, seekVars, nodeVars, designReady, handlerVars, pc,
                 err, outcome, browser, fsVars, stagingVars, durVars,
                 loopVars, histVars, stageVars>>

\* The handler up to its first await: request.continue() for a data: URL
\* and for anything it does not serve, the try block otherwise.
Dispatch ==
  /\ request.phase = "pending"
  /\ request' = IF ServedLocally(request)
                THEN [request EXCEPT !.phase = "serving"]
                ELSE [request EXCEPT !.phase = "done",
                                     !.continued = @ + 1]
  /\ UNCHANGED <<inputVars, seekVars, nodeVars, designReady, handlerVars, pc,
                 err, outcome, browser, fsVars, stagingVars, durVars,
                 loopVars, histVars, stageVars>>

\* The try block: stat, open, read and request.respond().  Buffer.alloc
\* throws for a negative size; stat, open and read may fail ("read"), and
\* respond may reject without having sent anything ("respond").
ServeLocal ==
  /\ request.phase = "serving"
  /\ \E fault \in {"none", "read", "respond"} :
       LET thrown == IF Ranged(request) /\ ChunkSize(request) < 0
                     THEN "alloc" ELSE fault
       IN IF thrown = "none"
          THEN request' = [request EXCEPT !.phase = "done",
                                          !.responded = @ + 1,
                                          !.response = ResponseFor(request)]
          ELSE request' = [request EXCEPT
                             !.phase = "done",
                             !.continued =
                               IF AfterServeError(thrown) = "continue"
                               THEN @ + 1 ELSE @]
  /\ UNCHANGED <<inputVars, seekVars, nodeVars, designReady, handlerVars, pc,
                 err, outcome, browser, fsVars, stagingVars, durVars,
                 loopVars, histVars, stageVars>>

InitIntercept == InitFor({<<>>}) /\ ~useFFmpeg /\ ~webhookUrl

NextIntercept == RequestArrives \/ Dispatch \/ ServeLocal

SpecIntercept == InitIntercept /\ [][NextIntercept]_vars

\* C32: a request for a staged video that carries a range start-end is
\* answered 206 with Accept-Ranges, Content-Range start-end/fileSize,
\* Content-Length end - start + 1 and a body that is exactly the bytes
\* start..end of the file (end = fileSize - 1 for an open range); a staged
\* asset that is no video, or a request without a range, is answered 200
\* with the whole file.
C32_RangeResponse ==
  (request.phase = "done" /\ request.responded = 1) =>
    LET r == request
        resp == request.response
        start == r.range[1]
        end == IF r.range[2] = -1 THEN r.size - 1 ELSE r.range[2]
    IN IF r.asset = "video" /\ r.range # <<>>
       THEN /\ resp.status = 206
            /\ resp.acceptRanges
            /\ resp.contentRange = <<start, end, r.size>>
            /\ resp.contentLength = end - start + 1
            /\ Len(resp.body) = end - start + 1
            /\ \A k \in 1..Len(resp.body) :
                 /\ start + k - 1 < r.size
                 /\ resp.body[k] = FileByte(start + k - 1)
       ELSE /\ resp.status = 200
            /\ resp.contentLength = r.size
            /\ Len(resp.body) = r.size
            /\ \A k \in 1..r.size : resp.body[k] = FileByte(k - 1)

\* C37: every intercepted request gets exactly one disposition: when its
\* handler has finished it was either answered from disk or continued to
\* the network, never both and never neither, also when reading the file
\* or sending the response failed.
C37_OneDisposition ==
  /\ request.responded + request.continued <= 1
  /\ request.phase = "done" => request.responded + request.continued = 1
  /\ request.responded = 1 => request.response # NoResponse
  /\ request.continued = 1 => request.response = NoResponse

C37_Witness ==
  /\ request.phase = "done"
  /\ request.url = "local"
  /\ request.exists
  /\ request.asset = "video"
  /\ request.range # <<>>
  /\ request.continued = 1
  /\ request.responded = 0

\* C33: a failed clean-up is never escalated: the step that removes the
\* working directory (and the unlink of the legacy clean-up) leaves the
\* pending error as it was, whether or not the removal succeeded, and
\* renderVideo ends with the outcome that error stands for.
C33_CleanupNotEscalated ==
  [][ /\ pc = "cleanup" =>
           /\ err' = err
           /\ pc' = "done"
           /\ outcome' = (IF err = "none" THEN "returned" ELSE "threw")
      /\ pc = "unlink" => (err' = err /\ outcome' = outcome /\ pc' = "finally")
    ]_vars

\* The removal failed (the directory is still there) and renderVideo
\* returned normally.
C33_Witness ==
  /\ impl = "staged"
  /\ pc = "done"
  /\ browser = "closed"
  /\ "cleanup" \in ended
  /\ workDir
  /\ outcome = "returned"

\* C34: renderVideo returns without error only when the artifact was
\* uploaded successfully and a completed event was initiated (when a
\* webhook is configured); in particular a run in which a failed event was
\* initiated does not return normally.
C34_ReturnsOnlyWhenUploaded ==
  (pc = "done" /\ ~useFFmpeg /\ outcome = "returned") =>
    /\ uploads >= 1
    /\ uploadStatus >= 200 /\ uploadStatus < 300
    /\ webhookUrl => HasEvent("completed")
    /\ ~HasEvent("failed")

\* C35: the progress values of the events of a job are non-decreasing in
\* the order of initiation and lie within 0..100; every rendering_frames
\* value is at most the merging_video value 90.
C35_ProgressMonotone ==
  /\ \A k \in 1..Len(events) :
       /\ events[k].progress >= 0
       /\ events[k].progress <= 100
       /\ events[k].status = "rendering_frames" => events[k].progress <= 90
  /\ \A k \in 1..(Len(events) - 1) : events[k].progress <= events[k + 1].progress

C38_BrowserClosed ==
  /\ pc = "done" => (browser \in {"none", "closed"} \/ err = "close")
  /\ pc = "cleanup" => browser = "closed"

====
